---- MODULE Spec2Model ----
(***************************************************************************)
(* Model of the command execution and session subsystem of switch-manager  *)
(* (src/main.py):                                                          *)
(*   - StreamingOutputScreen: one modal screen that spawns a process and   *)
(*     streams its output line by line, with ESC / pop_screen / on_unmount *)
(*     teardown (specifications Spec and FairSpec);                        *)
(*   - SwitchManagerApp.run_batch_ping / run_ping: the fan-out / fan-in    *)
(*     batch probe over the filtered rows (specification SpecBatch).       *)
(* Coroutines are cut at their suspension points (every await): one action *)
(* runs a coroutine from one await to the next.                            *)
(***************************************************************************)
EXTENDS Integers, Sequences, FiniteSets, TLC

VARIABLES
    screen,        \* StreamingOutputScreen: "none" | "pushed" | "active" | "removed"
    closed,        \* self._closed
    output,        \* self.output (text: a sequence of characters)
    shown,         \* text held by the Static#output_text widget of the screen
    stream_task,   \* self._stream_task: "none" | "spawn" | "read" | "wait"
                   \*   | "done" | "cancelled" | "failed"
    must_cancel,   \* self._stream_task.cancel() was called, CancelledError not yet raised
    loop_exit,     \* which break left the read loop: "none" | "flag" | "eof"
    proc,          \* the process of stream_output: "none" | "running" | "exited"
    emitted,       \* byte lines the process has written to its stdout pipe
    eof,           \* the process has closed its stdout
    nread,         \* number of lines proc.stdout.readline() has returned
    kill_sent,     \* proc.kill() was called
    waited,        \* await proc.wait() has returned
    pending_pops,  \* pop_screen callbacks scheduled by call_later, not yet run
    unmount_pc,    \* on_unmount of the streaming screen: "idle" | "start"
                   \*   | "await_task" | "sleep" | "done"
    focus,         \* widget holding the focus: "table" | "screen"
    filtered_data, \* self.filtered_data: sequence of rows
    batch_pc,      \* run_batch_ping: "idle" | "pushing" | "gather" | "done" | "raised"
    tasks,         \* the tasks list of run_batch_ping: one record per run_ping task
    results,       \* the list returned by asyncio.gather
    loading_screen,\* the OutputScreen of the batch: "none" | "active" | "removed" | "unmounted"
    loading_text,  \* text held by the Static#output_text widget of the loading screen
    data,          \* self.data: all rows loaded from the CSV file
    table_rows,    \* rows held by the DataTable widget, as displayed
    cursor_row,    \* table.cursor_row
    sort_column,   \* self.sort_column (-1 stands for None)
    sort_ascending,\* self.sort_ascending
    active_command_index, \* self.active_command_index
    ssh_launched,  \* targets of the ssh processes started by launch_external_ssh
    exited,        \* self.exit() was called
    snapshot,      \* the filtered view as it was when the running batch was issued
    search_value,  \* value of the Input#search_input widget
    sm_user,       \* the environment variable SM_USER (empty when unset)
    aborted        \* action_execute_command has logged "aborting command execution"

stream_vars == <<screen, closed, output, shown, stream_task, must_cancel, loop_exit,
                 proc, emitted, eof, nread, kill_sent, waited, unmount_pc>>
host_vars == <<pending_pops, focus>>
batch_vars == <<filtered_data, batch_pc, tasks, results, loading_screen, loading_text>>
app_vars == <<data, table_rows, cursor_row, sort_column, sort_ascending,
              active_command_index, ssh_launched, exited, snapshot, search_value,
              sm_user, aborted>>
vars == <<stream_vars, host_vars, batch_vars, app_vars>>

\* ---------------------------------------------------------------- bounds
MaxLines == 2    \* lines a process writes at most
MaxEsc == 2      \* ESC key presses delivered to one screen at most
MaxRows == 3     \* rows of the filtered view at most
MaxTableRows == 2 \* rows of the inventory shown in the table at most

\* ------------------------------------------------------------------ text
\* Byte lines the modelled processes write: b"a\n" and b"b\n".
ByteLines == {<<97, 10>>, <<98, 10>>}

\* bytes.decode() of one byte (UTF-8, ASCII range).
Chr(b) == IF b = 10 THEN "\n" ELSE IF b = 97 THEN "a" ELSE "b"

\* line.decode(): the characters of a byte string.
Decode(line) == [i \in 1..Len(line) |-> Chr(line[i])]

\* self.output = decoded: a chunk replaces the accumulated text.
AppendChunkReplace(out, line) == Decode(line)

\* self.output += decoded
AppendChunk(out, line) == out \o Decode(line)

\* ------------------------------------------------- stream_output (task)
TaskRunning == stream_task \in {"spawn", "read", "wait"}
TaskDone == stream_task \in {"done", "cancelled", "failed"}

\* Top of `while True`: the closing flag is tested before each readline.
LoopTop(flag) ==
    IF flag
    THEN stream_task' = "wait" /\ loop_exit' = "flag"
    ELSE stream_task' = "read" /\ loop_exit' = loop_exit

\* on_mount: the stream task is created.
OnMount ==
    /\ screen = "pushed"
    /\ screen' = "active"
    /\ stream_task' = "spawn"
    /\ focus' = "screen"
    /\ UNCHANGED <<closed, output, shown, must_cancel, loop_exit, proc, emitted, eof,
                   nread, kill_sent, waited, unmount_pc, pending_pops>>
    /\ UNCHANGED batch_vars
    /\ UNCHANGED app_vars

\* create_subprocess_exec returns: the process runs, the widget is found,
\* and the loop is entered.
StreamSpawn ==
    /\ stream_task = "spawn"
    /\ ~must_cancel
    /\ proc' = "running"
    /\ LoopTop(closed)
    /\ UNCHANGED <<screen, closed, output, shown, must_cancel, emitted, eof, nread,
                   kill_sent, waited, unmount_pc>>
    /\ UNCHANGED <<host_vars, batch_vars>>
    /\ UNCHANGED app_vars

\* create_subprocess_exec raises (program missing): the exception leaves
\* stream_output, which has no handler around the spawn.
StreamSpawnError ==
    /\ stream_task = "spawn"
    /\ ~must_cancel
    /\ stream_task' = "failed"
    /\ UNCHANGED <<screen, closed, output, shown, must_cancel, loop_exit, proc, emitted,
                   eof, nread, kill_sent, waited, unmount_pc>>
    /\ UNCHANGED <<host_vars, batch_vars>>
    /\ UNCHANGED app_vars

\* readline returns a line: it is decoded, appended and pushed to the widget,
\* then the loop goes round to its flag test.
StreamReadline ==
    /\ stream_task = "read"
    /\ ~must_cancel
    /\ nread < Len(emitted)
    /\ nread' = nread + 1
    /\ output' = AppendChunk(output, emitted[nread + 1])
    /\ shown' = output'
    /\ LoopTop(closed)
    /\ UNCHANGED <<screen, closed, must_cancel, proc, emitted, eof, kill_sent, waited,
                   unmount_pc>>
    /\ UNCHANGED <<host_vars, batch_vars>>
    /\ UNCHANGED app_vars

\* readline returns b"": `if not line: break`, on to `await proc.wait()`.
StreamReadEof ==
    /\ stream_task = "read"
    /\ ~must_cancel
    /\ nread = Len(emitted)
    /\ eof
    /\ stream_task' = "wait"
    /\ loop_exit' = "eof"
    /\ UNCHANGED <<screen, closed, output, shown, must_cancel, proc, emitted, eof, nread,
                   kill_sent, waited, unmount_pc>>
    /\ UNCHANGED <<host_vars, batch_vars>>
    /\ UNCHANGED app_vars

\* await proc.wait() returns once the process has exited; the task ends.
StreamWait ==
    /\ stream_task = "wait"
    /\ ~must_cancel
    /\ proc = "exited"
    /\ waited' = TRUE
    /\ stream_task' = "done"
    /\ UNCHANGED <<screen, closed, output, shown, must_cancel, loop_exit, proc, emitted,
                   eof, nread, kill_sent, unmount_pc>>
    /\ UNCHANGED <<host_vars, batch_vars>>
    /\ UNCHANGED app_vars

\* CancelledError is raised at the await the task is suspended in. Only the
\* readline is inside `try ... except asyncio.CancelledError: proc.kill()`;
\* the spawn and the final wait are outside it. A spawn that is cancelled
\* yields no process.
StreamCancelled ==
    /\ TaskRunning
    /\ must_cancel
    /\ must_cancel' = FALSE
    /\ kill_sent' = (kill_sent \/ stream_task = "read")
    /\ stream_task' = "cancelled"
    /\ UNCHANGED <<screen, closed, output, shown, loop_exit, proc, emitted, eof, nread,
                   waited, unmount_pc>>
    /\ UNCHANGED <<host_vars, batch_vars>>
    /\ UNCHANGED app_vars

\* ------------------------------------------------ the spawned process
ProcEmit ==
    /\ proc = "running"
    /\ ~eof
    /\ Len(emitted) < MaxLines
    /\ \E line \in ByteLines : emitted' = Append(emitted, line)
    /\ UNCHANGED <<screen, closed, output, shown, stream_task, must_cancel, loop_exit,
                   proc, eof, nread, kill_sent, waited, unmount_pc>>
    /\ UNCHANGED <<host_vars, batch_vars>>
    /\ UNCHANGED app_vars

ProcCloseStdout ==
    /\ proc = "running"
    /\ ~eof
    /\ eof' = TRUE
    /\ UNCHANGED <<screen, closed, output, shown, stream_task, must_cancel, loop_exit,
                   proc, emitted, nread, kill_sent, waited, unmount_pc>>
    /\ UNCHANGED <<host_vars, batch_vars>>
    /\ UNCHANGED app_vars

\* The process exits, by itself or because it was killed.
ProcExit ==
    /\ proc = "running"
    /\ proc' = "exited"
    /\ eof' = TRUE
    /\ UNCHANGED <<screen, closed, output, shown, stream_task, must_cancel, loop_exit,
                   emitted, nread, kill_sent, waited, unmount_pc>>
    /\ UNCHANGED <<host_vars, batch_vars>>
    /\ UNCHANGED app_vars

\* ------------------------------------------------------- host handlers
\* StreamingOutputScreen.on_key("escape"): set the flag, schedule pop_screen.
OnKeyEscape ==
    /\ screen = "active"
    /\ pending_pops < MaxEsc
    /\ closed' = TRUE
    /\ pending_pops' = pending_pops + 1
    /\ UNCHANGED <<screen, output, shown, stream_task, must_cancel, loop_exit, proc,
                   emitted, eof, nread, kill_sent, waited, unmount_pc, focus>>
    /\ UNCHANGED batch_vars
    /\ UNCHANGED app_vars

\* SwitchManagerApp.pop_screen: the modal on top of the stack is removed (its
\* on_unmount starts) and the table is focused. With no modal left the
\* framework raises and nothing is popped.
PopScreen ==
    /\ pending_pops > 0
    /\ pending_pops' = pending_pops - 1
    /\ IF screen = "active"
       THEN /\ screen' = "removed"
            /\ unmount_pc' = "start"
            /\ focus' = "table"
            /\ UNCHANGED loading_screen
       ELSE IF loading_screen = "active"
       THEN /\ loading_screen' = "removed"
            /\ focus' = "table"
            /\ UNCHANGED <<screen, unmount_pc>>
       ELSE UNCHANGED <<screen, unmount_pc, focus, loading_screen>>
    /\ UNCHANGED <<closed, output, shown, stream_task, must_cancel, loop_exit, proc,
                   emitted, eof, nread, kill_sent, waited>>
    /\ UNCHANGED <<filtered_data, batch_pc, tasks, results, loading_text>>
    /\ UNCHANGED app_vars

\* on_unmount that awaits the task without cancelling it.
OnUnmountNoCancel ==
    /\ unmount_pc = "start"
    /\ unmount_pc' = IF stream_task /= "none" /\ ~TaskDone THEN "await_task" ELSE "sleep"
    /\ UNCHANGED <<screen, closed, output, shown, stream_task, must_cancel, loop_exit,
                   proc, emitted, eof, nread, kill_sent, waited>>
    /\ UNCHANGED <<host_vars, batch_vars>>
    /\ UNCHANGED app_vars

\* on_unmount, to its first await: a task that is not done is cancelled and
\* awaited; otherwise straight to the sleep.
OnUnmount ==
    /\ unmount_pc = "start"
    /\ IF stream_task /= "none" /\ ~TaskDone
       THEN must_cancel' = TRUE /\ unmount_pc' = "await_task"
       ELSE must_cancel' = must_cancel /\ unmount_pc' = "sleep"
    /\ UNCHANGED <<screen, closed, output, shown, stream_task, loop_exit, proc, emitted,
                   eof, nread, kill_sent, waited>>
    /\ UNCHANGED <<host_vars, batch_vars>>
    /\ UNCHANGED app_vars

\* `await self._stream_task` returns (CancelledError caught) once the task ended.
OnUnmountAwaited ==
    /\ unmount_pc = "await_task"
    /\ TaskDone
    /\ unmount_pc' = "sleep"
    /\ UNCHANGED <<screen, closed, output, shown, stream_task, must_cancel, loop_exit,
                   proc, emitted, eof, nread, kill_sent, waited>>
    /\ UNCHANGED <<host_vars, batch_vars>>
    /\ UNCHANGED app_vars

\* After asyncio.sleep(0.3): the data table, when the query finds it (no other
\* modal is on top), is focused.
OnUnmountFocus ==
    /\ unmount_pc = "sleep"
    /\ unmount_pc' = "done"
    /\ focus' = IF loading_screen /= "active" THEN "table" ELSE focus
    /\ UNCHANGED <<screen, closed, output, shown, stream_task, must_cancel, loop_exit,
                   proc, emitted, eof, nread, kill_sent, waited, pending_pops>>
    /\ UNCHANGED batch_vars
    /\ UNCHANGED app_vars

\* ----------------------------------------------------- inventory rows
\* A row is a dict from the CSV header's column names to text (a sequence of
\* characters; names are single tokens). All rows of one file have the same
\* keys. Addresses: "1", empty, " 2 " (padded) and " " (whitespace only).
UpperRows ==
    { [Name |-> "A", IP |-> <<"1">>],
      [Name |-> "B", IP |-> <<>>],
      [Name |-> "C", IP |-> <<" ", "2", " ">>],
      [Name |-> "D", IP |-> <<" ">>] }

\* Rows of a file whose header spells the columns "name" and "ip".
LowerRows == { [name |-> "E", ip |-> <<"3">>] }

\* Sequences over S of length at most n.
SeqUpTo(S, n) == UNION { [1..k -> S] : k \in 0..n }

\* dict.get(key, default)
Get(row, key, default) == IF key \in DOMAIN row THEN row[key] ELSE default

RECURSIVE LStrip(_)
LStrip(s) == IF s /= <<>> /\ Head(s) = " " THEN LStrip(Tail(s)) ELSE s

RECURSIVE RStrip(_)
RStrip(s) ==
    IF s /= <<>> /\ s[Len(s)] = " " THEN RStrip(SubSeq(s, 1, Len(s) - 1)) ELSE s

\* str.strip()
Strip(s) == RStrip(LStrip(s))

\* ip = row.get("IP", ""): the address is dispatched untrimmed.
RowIpNoStrip(row) == Get(row, "IP", <<>>)

\* ip = row.get("IP", "").strip()
RowIp(row) == Strip(Get(row, "IP", <<>>))

\* hostname = row.get("Name", row.get("name", ""))
RowHostname(row) == Get(row, "Name", Get(row, "name", ""))

\* ----------------------------------------------------------- run_ping
\* f">> {hostname} ({ip}):\n"
PingHeader(hostname, ip) == <<">> ", hostname, " (">> \o ip \o <<"):\n">>

\* The value run_ping returns: stdout if it is not empty, else stderr.
RunPingResult(hostname, ip, stdout, stderr) ==
    [exc |-> FALSE,
     text |-> PingHeader(hostname, ip) \o
              (IF stdout /= <<>> THEN Decode(stdout) ELSE Decode(stderr))]

\* The exception create_subprocess_exec raises when ping cannot be executed;
\* text is its str().
SpawnException == [exc |-> TRUE, text |-> <<"[Errno 2] No such file or directory: 'ping'">>]

\* (stdout, stderr) a ping process can end with: a reply on stdout, an error
\* on stderr, or nothing at all.
PingOutputs == { <<(<<97, 10>>), <<>>>>, << <<>>, (<<98, 10>>)>>, << <<>>, <<>> >> }

Resolved(t) == t.st \in {"returned", "raised"}
NumResolved(ts) == Cardinality({j \in 1..Len(ts) : Resolved(ts[j])})

\* asyncio.create_task(self.run_ping(hostname, ip)) for row number i.
NewTask(i, row) ==
    [row |-> i, hostname |-> RowHostname(row), ip |-> RowIp(row),
     st |-> "spawn", nth |-> 0, res |-> <<>>]

\* The for loop of run_batch_ping over rows i..Len(rows).
RECURSIVE CreateTasks(_, _)
CreateTasks(rows, i) ==
    IF i > Len(rows) THEN <<>>
    ELSE (IF RowIp(rows[i]) /= <<>> THEN <<NewTask(i, rows[i])>> ELSE <<>>)
         \o CreateTasks(rows, i + 1)

\* A probe that starts its process only once the probes before it are over.
ProbeSpawnInTurn(j) ==
    /\ batch_pc = "gather"
    /\ tasks[j].st = "spawn"
    /\ \A k \in 1..(j - 1) : Resolved(tasks[k])
    /\ tasks' = [tasks EXCEPT ![j].st = "communicate"]
    /\ UNCHANGED <<filtered_data, batch_pc, results, loading_screen, loading_text>>
    /\ UNCHANGED <<stream_vars, host_vars>>
    /\ UNCHANGED app_vars

\* create_subprocess_exec returns in probe j. The task was scheduled by
\* create_task and runs whenever the event loop is free, which it is while
\* run_batch_ping awaits gather.
ProbeSpawnTask(j) ==
    /\ batch_pc = "gather"
    /\ tasks[j].st = "spawn"
    /\ tasks' = [tasks EXCEPT ![j].st = "communicate"]
    /\ UNCHANGED <<filtered_data, batch_pc, results, loading_screen, loading_text>>
    /\ UNCHANGED <<stream_vars, host_vars>>
    /\ UNCHANGED app_vars

ProbeSpawn == \E j \in 1..Len(tasks) : ProbeSpawnTask(j)

\* create_subprocess_exec raises in probe j: the task ends with the exception.
ProbeSpawnError ==
    /\ batch_pc = "gather"
    /\ \E j \in 1..Len(tasks) :
        /\ tasks[j].st = "spawn"
        /\ tasks' = [tasks EXCEPT ![j].st = "raised",
                                  ![j].nth = NumResolved(tasks) + 1,
                                  ![j].res = SpawnException]
    /\ UNCHANGED <<filtered_data, batch_pc, results, loading_screen, loading_text>>
    /\ UNCHANGED <<stream_vars, host_vars>>
    /\ UNCHANGED app_vars

\* proc.communicate() returns in probe j: the task returns its text.
ProbeCommunicate ==
    /\ batch_pc = "gather"
    /\ \E j \in 1..Len(tasks), o \in PingOutputs :
        /\ tasks[j].st = "communicate"
        /\ tasks' = [tasks EXCEPT
                       ![j].st = "returned",
                       ![j].nth = NumResolved(tasks) + 1,
                       ![j].res = RunPingResult(tasks[j].hostname, tasks[j].ip, o[1], o[2])]
    /\ UNCHANGED <<filtered_data, batch_pc, results, loading_screen, loading_text>>
    /\ UNCHANGED <<stream_vars, host_vars>>
    /\ UNCHANGED app_vars

\* ----------------------------------------------------- run_batch_ping
Placeholder == <<"Running batch ping, please wait...">>

\* sep.join(texts)
RECURSIVE Join(_, _)
Join(texts, sep) ==
    IF texts = <<>> THEN <<>>
    ELSE IF Len(texts) = 1 THEN texts[1]
    ELSE texts[1] \o sep \o Join(Tail(texts), sep)

\* "\n\n".join(str(result) for result in results)
CombinedOutput(rs) == Join([j \in 1..Len(rs) |-> rs[j].text], <<"\n\n">>)

\* A gather that lists the results in the order the tasks resolved.
GatherByCompletion(ts) ==
    [k \in 1..Len(ts) |-> ts[CHOOSE j \in 1..Len(ts) : ts[j].nth = k].res]

\* The list asyncio.gather(*tasks) resolves to: one entry per task, in the
\* order of the tasks.
Gather(ts) == [j \in 1..Len(ts) |-> ts[j].res]

\* gather(*tasks) without return_exceptions.
ReturnExceptionsOff == FALSE

\* gather(*tasks, return_exceptions=True)
ReturnExceptions == TRUE

\* run_batch_ping up to `await self.push_screen(loading_screen)`: entered from
\* action_execute_command, which returns early on an empty filtered view.
RunBatchPing ==
    /\ batch_pc = "idle"
    /\ filtered_data /= <<>>
    /\ batch_pc' = "pushing"
    /\ loading_screen' = "active"
    /\ loading_text' = Placeholder
    /\ focus' = "screen"
    /\ UNCHANGED <<filtered_data, tasks, results, pending_pops>>
    /\ UNCHANGED stream_vars
    /\ UNCHANGED app_vars

\* The batch iterated over the whole inventory.
BatchRowsAll == data

\* The rows run_batch_ping iterates over: `for row in self.filtered_data`.
BatchRows == filtered_data

\* push_screen has returned: one task per row with an address is created,
\* then gather is awaited.
RunBatchPingDispatch ==
    /\ batch_pc = "pushing"
    /\ tasks' = CreateTasks(BatchRows, 1)
    /\ batch_pc' = "gather"
    /\ UNCHANGED <<filtered_data, results, loading_screen, loading_text>>
    /\ UNCHANGED <<stream_vars, host_vars>>
    /\ UNCHANGED app_vars

\* update_output that leaves the widget as it is.
UpdateOutputDropped(new_text) == loading_text' = loading_text

\* OutputScreen.update_output: the widget of a screen that is still mounted
\* takes the new text; on a dismissed screen the query fails and is logged.
UpdateOutput(new_text) ==
    loading_text' = IF loading_screen = "active" THEN new_text ELSE loading_text

\* gather resolves. With return_exceptions it waits for every task and returns
\* results and exceptions alike; without, the first exception is raised out of
\* run_batch_ping as soon as a task fails.
RunBatchPingGather ==
    /\ batch_pc = "gather"
    /\ IF ~ReturnExceptions /\ \E j \in 1..Len(tasks) : tasks[j].st = "raised"
       THEN /\ batch_pc' = "raised"
            /\ UNCHANGED <<results, loading_text>>
       ELSE /\ \A j \in 1..Len(tasks) : Resolved(tasks[j])
            /\ results' = Gather(tasks)
            /\ UpdateOutput(CombinedOutput(results'))
            /\ batch_pc' = "done"
    /\ UNCHANGED <<filtered_data, tasks, loading_screen>>
    /\ UNCHANGED <<stream_vars, host_vars>>
    /\ UNCHANGED app_vars

\* OutputScreen.on_key("escape") on the loading screen: schedule pop_screen.
\* A key reaches a screen through the message pump of the App, which handles
\* one message at a time: while SwitchManagerApp.on_key is still awaiting
\* action_execute_command (so, run_batch_ping), no further key is delivered.
OutputOnKeyEscape ==
    /\ loading_screen = "active"
    /\ batch_pc \notin {"pushing", "gather"}
    /\ pending_pops < MaxEsc
    /\ pending_pops' = pending_pops + 1
    /\ UNCHANGED focus
    /\ UNCHANGED <<stream_vars, batch_vars>>
    /\ UNCHANGED app_vars

\* OutputScreen.on_unmount: after the sleep the data table, when the query
\* finds it (no other modal is on top), is focused.
OutputOnUnmount ==
    /\ loading_screen = "removed"
    /\ loading_screen' = "unmounted"
    /\ focus' = IF screen \notin {"pushed", "active"} THEN "table" ELSE focus
    /\ UNCHANGED <<filtered_data, batch_pc, tasks, results, loading_text, pending_pops>>
    /\ UNCHANGED stream_vars
    /\ UNCHANGED app_vars

\* ------------------------------------------------------------- the table
\* ord() of the characters that occur in the inventories and search texts.
Ord(c) ==
    CASE c = " " -> 32
      [] c = "1" -> 49
      [] c = "2" -> 50
      [] c = "3" -> 51
      [] c = "@" -> 64
      [] c = "A" -> 65
      [] c = "B" -> 66
      [] c = "C" -> 67
      [] c = "D" -> 68
      [] c = "E" -> 69
      [] c = "a" -> 97
      [] c = "b" -> 98
      [] c = "c" -> 99
      [] c = "d" -> 100
      [] c = "e" -> 101
      [] c = "u" -> 117

\* str.lower() of one character.
LowerChar(c) ==
    CASE c = "A" -> "a"
      [] c = "B" -> "b"
      [] c = "C" -> "c"
      [] c = "D" -> "d"
      [] c = "E" -> "e"
      [] OTHER -> c

\* str.lower()
Lower(s) == [i \in 1..Len(s) |-> LowerChar(s[i])]

\* s < t for two str values: the first differing character decides, and a
\* proper prefix is smaller.
RECURSIVE TextLess(_, _)
TextLess(s, t) ==
    IF t = <<>> THEN FALSE
    ELSE IF s = <<>> THEN TRUE
    ELSE IF Head(s) = Head(t) THEN TextLess(Tail(s), Tail(t))
    ELSE Ord(Head(s)) < Ord(Head(t))

\* The text of a name, which the rows hold as one token.
NameText(n) == IF n = "" THEN <<>> ELSE <<n>>

\* get_value(row, col_index)
GetValue(row, col_index) ==
    CASE col_index = 0 -> NameText(Get(row, "Name", Get(row, "name", "")))
      [] col_index = 1 -> Get(row, "IP", Get(row, "ip", <<>>))
      [] col_index = 2 -> Get(row, "subnet", Get(row, "Subnet", <<>>))
      [] col_index = 3 -> Get(row, "aliases", Get(row, "Alias", <<>>))
      [] col_index = 4 -> Get(row, "comment", Get(row, "Comment", <<>>))
      [] OTHER -> <<>>

\* The sort key of sort_table: get_value(row, col_index).lower()
SortKey(row, col_index) == Lower(GetValue(row, col_index))

\* r goes before x in a list sorted on the column, ascending or reversed.
Before(r, x, col_index, ascending) ==
    IF ascending
    THEN TextLess(SortKey(r, col_index), SortKey(x, col_index))
    ELSE TextLess(SortKey(x, col_index), SortKey(r, col_index))

RECURSIVE InsertRow(_, _, _, _)
InsertRow(sorted, r, col_index, ascending) ==
    IF sorted = <<>> THEN <<r>>
    ELSE IF Before(r, Head(sorted), col_index, ascending) THEN <<r>> \o sorted
    ELSE <<Head(sorted)>> \o InsertRow(Tail(sorted), r, col_index, ascending)

\* list.sort(key=..., reverse=not ascending): stable, so rows with equal keys
\* keep their order, in both directions.
RECURSIVE Sorted(_, _, _)
Sorted(rows, col_index, ascending) ==
    IF rows = <<>> THEN <<>>
    ELSE InsertRow(Sorted(SubSeq(rows, 1, Len(rows) - 1), col_index, ascending),
                   rows[Len(rows)], col_index, ascending)

\* str.split(): the words between runs of whitespace.
RECURSIVE Split(_)
Split(s) ==
    LET t == LStrip(s)
        ends == {i \in 1..Len(t) : t[i] = " "}
        n == IF ends = {} THEN Len(t) + 1
             ELSE CHOOSE i \in ends : \A k \in ends : i <= k
    IN IF t = <<>> THEN <<>>
       ELSE <<SubSeq(t, 1, n - 1)>> \o Split(SubSeq(t, n, Len(t)))

\* token in text
Contains(token, text) ==
    \E i \in 1..(Len(text) - Len(token) + 1) :
        SubSeq(text, i, i + Len(token) - 1) = token

\* The row test of on_input_changed: some token occurs in some column.
Matches(row, tokens) ==
    \E k \in 1..Len(tokens) : \E col_index \in 0..4 :
        Contains(tokens[k], Lower(GetValue(row, col_index)))

\* The rows on_input_changed keeps for the value of the search input.
Filtered(rows, value) ==
    LET search_text == Strip(Lower(value))
    IN IF search_text = <<>> THEN rows
       ELSE SelectSeq(rows, LAMBDA row : Matches(row, Split(search_text)))

\* The cells update_table adds for a row.
TableRow(row) == [col_index \in 0..4 |-> GetValue(row, col_index)]

\* self.query(DataTable) finds the table: App.query searches the screen on top
\* of the stack only, so under a modal screen the query raises NoMatches.
BaseActive == screen \notin {"pushed", "active"} /\ loading_screen /= "active"

\* The message pump of the App is free: it handles one message at a time, and
\* on_key is awaiting action_execute_command until push_screen (and, for the
\* batch, gather) has returned.
AppIdle == screen /= "pushed" /\ batch_pc \notin {"pushing", "gather"} /\ ~exited

\* update_table(rows): returns early without the table; else the table is
\* cleared (the cursor goes back to the first row) and filled.
UpdateTable(rows) ==
    IF BaseActive
    THEN /\ table_rows' = [i \in 1..Len(rows) |-> TableRow(rows[i])]
         /\ cursor_row' = 0
    ELSE UNCHANGED <<table_rows, cursor_row>>

\* The sort keys the user presses: F1 (Name), F2 (IP), F3 (subnet).
SortKeys == {1, 2, 3}

\* on_key for F<col_num>: sort_table(col_num - 1).
SortTable(col_index) ==
    /\ AppIdle
    /\ IF sort_column = col_index
       THEN /\ sort_ascending' = ~sort_ascending
            /\ UNCHANGED sort_column
       ELSE /\ sort_column' = col_index
            /\ sort_ascending' = TRUE
    /\ filtered_data' = Sorted(filtered_data, col_index, sort_ascending')
    /\ UpdateTable(filtered_data')
    /\ UNCHANGED <<data, active_command_index, ssh_launched, exited, snapshot,
                   search_value, sm_user, aborted>>
    /\ UNCHANGED <<batch_pc, tasks, results, loading_screen, loading_text>>
    /\ UNCHANGED <<stream_vars, host_vars>>

OnKeySort == \E col_num \in SortKeys : SortTable(col_num - 1)

\* on_key for a printable character that reaches the App: the search input is
\* focused (the character is not entered).
OnKeyPrintable ==
    /\ AppIdle
    /\ BaseActive
    /\ focus /= "search"
    /\ focus' = "search"
    /\ UNCHANGED pending_pops
    /\ UNCHANGED <<stream_vars, batch_vars, app_vars>>

\* The values the search input takes.
SearchValues == {<<>>, <<"A">>, <<"1">>, <<"b", " ", "2">>}

\* on_input_changed: the user edits the focused search input.
OnInputChanged(value) ==
    /\ AppIdle
    /\ BaseActive
    /\ focus = "search"
    /\ value /= search_value
    /\ search_value' = value
    /\ filtered_data' = Filtered(data, value)
    /\ UpdateTable(filtered_data')
    /\ UNCHANGED <<data, sort_column, sort_ascending, active_command_index,
                   ssh_launched, exited, snapshot, sm_user, aborted>>
    /\ UNCHANGED <<batch_pc, tasks, results, loading_screen, loading_text>>
    /\ UNCHANGED <<stream_vars, host_vars>>

OnSearch == \E value \in SearchValues : OnInputChanged(value)

\* action_move_up: needs the table and a row; the cursor stops at the top.
ActionMoveUp ==
    /\ AppIdle
    /\ BaseActive
    /\ Len(table_rows) > 0
    /\ cursor_row > 0
    /\ cursor_row' = cursor_row - 1
    /\ UNCHANGED <<data, table_rows, sort_column, sort_ascending, active_command_index,
                   ssh_launched, exited, snapshot, search_value, sm_user, aborted>>
    /\ UNCHANGED <<stream_vars, host_vars, batch_vars>>

\* action_move_down: the cursor stops at the last row.
ActionMoveDown ==
    /\ AppIdle
    /\ BaseActive
    /\ cursor_row + 1 < Len(table_rows)
    /\ cursor_row' = cursor_row + 1
    /\ UNCHANGED <<data, table_rows, sort_column, sort_ascending, active_command_index,
                   ssh_launched, exited, snapshot, search_value, sm_user, aborted>>
    /\ UNCHANGED <<stream_vars, host_vars, batch_vars>>

\* ----------------------------------------------------------- the commands
\* self.commands
Commands == <<"ssh", "ping", "traceroute", "batch ping", "details", "help", "exit">>

\* on_key for left and right: action_prev_command and action_next_command.
OnKeyLeftRight ==
    /\ AppIdle
    /\ \E step \in {-1, 1} :
        active_command_index' = (active_command_index + step) % Len(Commands)
    /\ UNCHANGED <<data, table_rows, cursor_row, sort_column, sort_ascending,
                   ssh_launched, exited, snapshot, search_value, sm_user, aborted>>
    /\ UNCHANGED <<stream_vars, host_vars, batch_vars>>

\* The guard of action_execute_command: the table is found, the filtered
\* view is not empty and the cursor is an index of it.
CanExecute ==
    /\ BaseActive
    /\ filtered_data /= <<>>
    /\ cursor_row < Len(filtered_data)

\* command = self.commands[self.active_command_index]
Command == Commands[active_command_index + 1]

\* row_data = self.filtered_data[row_index]
RowData == filtered_data[cursor_row + 1]

\* The target launch_external_ssh passes to ssh: f"{username}@{ip}"
SshTarget(username, ip) == username \o <<"@">> \o ip

\* Enter with no table, an empty view or a cursor out of range: nothing is
\* executed; the table, when found, is focused.
ExecuteNothing ==
    /\ AppIdle
    /\ ~CanExecute
    /\ aborted' = TRUE
    /\ focus' = IF BaseActive THEN "table" ELSE focus
    /\ UNCHANGED pending_pops
    /\ UNCHANGED <<data, table_rows, cursor_row, sort_column, sort_ascending,
                   active_command_index, ssh_launched, exited, snapshot, search_value,
                   sm_user>>
    /\ UNCHANGED <<stream_vars, batch_vars>>

\* Enter on "exit" with self.exit() ahead of the test of the table and the row.
ExecuteExitUnguarded ==
    /\ AppIdle
    /\ Command = "exit"
    /\ exited' = TRUE
    /\ focus' = IF BaseActive THEN "table" ELSE focus
    /\ UNCHANGED pending_pops
    /\ UNCHANGED <<data, table_rows, cursor_row, sort_column, sort_ascending,
                   active_command_index, ssh_launched, snapshot, search_value, sm_user,
                   aborted>>
    /\ UNCHANGED <<stream_vars, batch_vars>>

\* Enter on "exit": self.exit()
ExecuteExit ==
    /\ AppIdle
    /\ CanExecute
    /\ Command = "exit"
    /\ exited' = TRUE
    /\ focus' = "table"
    /\ UNCHANGED pending_pops
    /\ UNCHANGED <<data, table_rows, cursor_row, sort_column, sort_ascending,
                   active_command_index, ssh_launched, snapshot, search_value, sm_user, aborted>>
    /\ UNCHANGED <<stream_vars, batch_vars>>

\* Enter on "ssh": launch_external_ssh(ip) starts a terminal emulator running
\* ssh with subprocess.Popen and returns; no screen is pushed and the Popen
\* object is dropped.
ExecuteSsh ==
    /\ AppIdle
    /\ CanExecute
    /\ Command = "ssh"
    /\ ssh_launched' = ssh_launched \cup {SshTarget(sm_user, RowIp(RowData))}
    /\ focus' = "table"
    /\ UNCHANGED pending_pops
    /\ UNCHANGED <<data, table_rows, cursor_row, sort_column, sort_ascending,
                   active_command_index, exited, snapshot, search_value, sm_user, aborted>>
    /\ UNCHANGED <<stream_vars, batch_vars>>

\* The model follows one streaming screen and one output screen: a command
\* is taken up when the screen of its kind, if there was one, has finished
\* its on_unmount.
StreamSlotFree == screen = "none" \/ (screen = "removed" /\ unmount_pc = "done" /\ TaskDone)
OutputSlotFree == loading_screen \in {"none", "unmounted"}

\* A screen that has finished its on_unmount is referenced no more: when the
\* next screen is pushed, the fields of a finished streaming screen, or of a
\* finished output screen and its batch, are dropped.
ForgetStream ==
    IF StreamSlotFree
    THEN /\ screen' = "none"
         /\ closed' = FALSE
         /\ output' = <<>>
         /\ shown' = <<>>
         /\ stream_task' = "none"
         /\ must_cancel' = FALSE
         /\ loop_exit' = "none"
         /\ proc' = "none"
         /\ emitted' = <<>>
         /\ eof' = FALSE
         /\ nread' = 0
         /\ kill_sent' = FALSE
         /\ waited' = FALSE
         /\ unmount_pc' = "idle"
    ELSE UNCHANGED stream_vars

ForgetOutput ==
    IF OutputSlotFree
    THEN /\ batch_pc' = "idle"
         /\ tasks' = <<>>
         /\ results' = <<>>
         /\ loading_screen' = "none"
         /\ loading_text' = <<>>
         /\ snapshot' = <<>>
    ELSE UNCHANGED <<batch_pc, tasks, results, loading_screen, loading_text, snapshot>>

\* Enter on "ping" or "traceroute": push_screen(StreamingOutputScreen(...)).
ExecuteStream ==
    /\ AppIdle
    /\ CanExecute
    /\ Command \in {"ping", "traceroute"}
    /\ StreamSlotFree
    /\ screen' = "pushed"
    /\ closed' = FALSE
    /\ output' = <<>>
    /\ shown' = <<>>
    /\ stream_task' = "none"
    /\ must_cancel' = FALSE
    /\ loop_exit' = "none"
    /\ proc' = "none"
    /\ emitted' = <<>>
    /\ eof' = FALSE
    /\ nread' = 0
    /\ kill_sent' = FALSE
    /\ waited' = FALSE
    /\ unmount_pc' = "idle"
    /\ ForgetOutput
    /\ UNCHANGED <<host_vars, filtered_data>>
    /\ UNCHANGED <<data, table_rows, cursor_row, sort_column, sort_ascending,
                   active_command_index, ssh_launched, exited, search_value, sm_user, aborted>>

\* Enter on "batch ping": run_batch_ping pushes the loading screen.
ExecuteBatchPing ==
    /\ AppIdle
    /\ CanExecute
    /\ Command = "batch ping"
    /\ OutputSlotFree
    /\ batch_pc' = "pushing"
    /\ tasks' = <<>>
    /\ results' = <<>>
    /\ loading_screen' = "active"
    /\ loading_text' = Placeholder
    /\ snapshot' = filtered_data
    /\ focus' = "screen"
    /\ ForgetStream
    /\ UNCHANGED <<filtered_data, pending_pops>>
    /\ UNCHANGED <<data, table_rows, cursor_row, sort_column, sort_ascending,
                   active_command_index, ssh_launched, exited, search_value, sm_user, aborted>>

\* The column names of a row, in the order of the CSV header.
Columns(row) == IF "Name" \in DOMAIN row THEN <<"Name", "IP">> ELSE <<"name", "ip">>

\* "\n".join(f"{k}: {v}" for k, v in row_data.items())
Details(row) ==
    LET ks == Columns(row)
    IN <<ks[1], ": ", row[ks[1]], "\n", ks[2], ": ">> \o row[ks[2]]

\* The fixed help text.
HelpText == <<"V-Li: Switch Manager">>

\* Enter on "details" or "help": push_screen(OutputScreen(text)).
ExecuteOutput ==
    /\ AppIdle
    /\ CanExecute
    /\ Command \in {"details", "help"}
    /\ OutputSlotFree
    /\ batch_pc' = "idle"
    /\ tasks' = <<>>
    /\ results' = <<>>
    /\ loading_screen' = "active"
    /\ loading_text' = IF Command = "details" THEN Details(RowData) ELSE HelpText
    /\ snapshot' = <<>>
    /\ focus' = "screen"
    /\ ForgetStream
    /\ UNCHANGED <<filtered_data, pending_pops>>
    /\ UNCHANGED <<data, table_rows, cursor_row, sort_column, sort_ascending,
                   active_command_index, ssh_launched, exited, search_value, sm_user, aborted>>

\* -------------------------------------------------------- specification
\* StreamingOutputScreen.__init__, pushed by action_execute_command.
InitStream ==
    /\ screen = "pushed"
    /\ closed = FALSE
    /\ output = <<>>
    /\ shown = <<>>
    /\ stream_task = "none"
    /\ must_cancel = FALSE
    /\ loop_exit = "none"
    /\ proc = "none"
    /\ emitted = <<>>
    /\ eof = FALSE
    /\ nread = 0
    /\ kill_sent = FALSE
    /\ waited = FALSE
    /\ unmount_pc = "idle"

\* No batch is running.
NoBatch ==
    /\ filtered_data = <<>>
    /\ batch_pc = "idle"
    /\ tasks = <<>>
    /\ results = <<>>
    /\ loading_screen = "none"
    /\ loading_text = <<>>

\* SwitchManagerApp.__init__, with no inventory loaded.
NoApp ==
    /\ data = <<>>
    /\ table_rows = <<>>
    /\ cursor_row = 0
    /\ sort_column = -1
    /\ sort_ascending = TRUE
    /\ active_command_index = 0
    /\ ssh_launched = {}
    /\ exited = FALSE
    /\ snapshot = <<>>
    /\ search_value = <<>>
    /\ sm_user = <<>>
    /\ aborted = FALSE

Init ==
    /\ InitStream
    /\ pending_pops = 0
    /\ focus = "table"
    /\ NoBatch
    /\ NoApp

Next ==
    \/ OnMount
    \/ StreamSpawn
    \/ StreamSpawnError
    \/ StreamReadline
    \/ StreamReadEof
    \/ StreamWait
    \/ StreamCancelled
    \/ ProcEmit
    \/ ProcCloseStdout
    \/ ProcExit
    \/ OnKeyEscape
    \/ PopScreen
    \/ OnUnmount
    \/ OnUnmountAwaited
    \/ OnUnmountFocus

Spec == Init /\ [][Next]_vars

\* The event loop runs every scheduled callback and every task that can run:
\* a scheduled pop_screen runs, on_unmount proceeds at each of its awaits, and
\* a cancelled task is resumed with its CancelledError.
FairSpec ==
    /\ Spec
    /\ WF_vars(PopScreen)
    /\ WF_vars(OnUnmount)
    /\ WF_vars(OnUnmountAwaited)
    /\ WF_vars(OnUnmountFocus)
    /\ WF_vars(StreamCancelled)

\* No streaming screen is open.
NoStream ==
    /\ screen = "none"
    /\ closed = FALSE
    /\ output = <<>>
    /\ shown = <<>>
    /\ stream_task = "none"
    /\ must_cancel = FALSE
    /\ loop_exit = "none"
    /\ proc = "none"
    /\ emitted = <<>>
    /\ eof = FALSE
    /\ nread = 0
    /\ kill_sent = FALSE
    /\ waited = FALSE
    /\ unmount_pc = "idle"

\* The application with a loaded inventory and a filtered view of at most
\* MaxRows rows, before the batch ping command is executed.
InitBatch ==
    /\ NoStream
    /\ pending_pops = 0
    /\ focus = "table"
    /\ filtered_data \in SeqUpTo(UpperRows, MaxRows) \cup SeqUpTo(LowerRows, MaxRows)
    /\ batch_pc = "idle"
    /\ tasks = <<>>
    /\ results = <<>>
    /\ loading_screen = "none"
    /\ loading_text = <<>>
    /\ data = filtered_data
    /\ table_rows = <<>>
    /\ cursor_row = 0
    /\ sort_column = -1
    /\ sort_ascending = TRUE
    /\ active_command_index = 3
    /\ ssh_launched = {}
    /\ exited = FALSE
    /\ snapshot = <<>>
    /\ search_value = <<>>
    /\ sm_user = <<>>
    /\ aborted = FALSE

NextBatch ==
    \/ RunBatchPing
    \/ RunBatchPingDispatch
    \/ ProbeSpawn
    \/ ProbeSpawnError
    \/ ProbeCommunicate
    \/ RunBatchPingGather
    \/ OutputOnKeyEscape
    \/ PopScreen
    \/ OutputOnUnmount

SpecBatch == InitBatch /\ [][NextBatch]_vars

\* The cells the table shows for a list of rows.
TableOf(rows) == [i \in 1..Len(rows) |-> TableRow(rows[i])]

\* Rows whose names differ in case only, or order differently with and
\* without case.
TableRowSet ==
    { [Name |-> "a", IP |-> <<"2">>],
      [Name |-> "B", IP |-> <<"1">>],
      [Name |-> "A", IP |-> <<"1">>] }

\* The application after on_mount: load_csv has read an inventory of at most
\* MaxTableRows rows, the filtered view is a copy of it and the table shows it.
\* The details command is selected.
InitTable ==
    /\ NoStream
    /\ pending_pops = 0
    /\ focus = "table"
    /\ data \in SeqUpTo(TableRowSet, MaxTableRows)
    /\ filtered_data = data
    /\ table_rows = TableOf(data)
    /\ batch_pc = "idle"
    /\ tasks = <<>>
    /\ results = <<>>
    /\ loading_screen = "none"
    /\ loading_text = <<>>
    /\ cursor_row = 0
    /\ sort_column = -1
    /\ sort_ascending = TRUE
    /\ active_command_index = 4
    /\ ssh_launched = {}
    /\ exited = FALSE
    /\ snapshot = <<>>
    /\ search_value = <<>>
    /\ sm_user = <<>>
    /\ aborted = FALSE

NextTable ==
    \/ OnKeySort
    \/ OnKeyPrintable
    \/ OnSearch
    \/ ActionMoveUp
    \/ ActionMoveDown
    \/ ExecuteNothing
    \/ ExecuteOutput
    \/ OutputOnKeyEscape
    \/ PopScreen
    \/ OutputOnUnmount

SpecTable == InitTable /\ [][NextTable]_vars

\* Inventories of the host: none, and two rows that sorting reorders.
HostInventories ==
    { <<>>,
      <<[Name |-> "b", IP |-> <<"2">>], [Name |-> "A", IP |-> <<" ", "1">>]>> }

\* The state of the application after on_mount for an inventory, a selected
\* command and a value of SM_USER.
Mounted(rows, index, user) ==
    /\ NoStream
    /\ pending_pops = 0
    /\ focus = "table"
    /\ data = rows
    /\ filtered_data = rows
    /\ table_rows = TableOf(rows)
    /\ batch_pc = "idle"
    /\ tasks = <<>>
    /\ results = <<>>
    /\ loading_screen = "none"
    /\ loading_text = <<>>
    /\ cursor_row = 0
    /\ sort_column = -1
    /\ sort_ascending = TRUE
    /\ active_command_index = index
    /\ ssh_launched = {}
    /\ exited = FALSE
    /\ snapshot = <<>>
    /\ search_value = <<>>
    /\ sm_user = user
    /\ aborted = FALSE

\* The host: the user moves along the command bar, presses Enter and ESC, and
\* the sessions run. The processes of the streaming sessions write nothing.
InitHost == \E rows \in HostInventories : Mounted(rows, 0, <<>>)

NextHost ==
    \/ OnKeyLeftRight
    \/ ExecuteNothing
    \/ ExecuteExit
    \/ ExecuteSsh
    \/ ExecuteStream
    \/ ExecuteBatchPing
    \/ ExecuteOutput
    \/ OnMount
    \/ StreamSpawn
    \/ StreamSpawnError
    \/ StreamReadEof
    \/ StreamWait
    \/ StreamCancelled
    \/ ProcCloseStdout
    \/ ProcExit
    \/ OnKeyEscape
    \/ PopScreen
    \/ OnUnmount
    \/ OnUnmountAwaited
    \/ OnUnmountFocus
    \/ RunBatchPingDispatch
    \/ ProbeSpawn
    \/ ProbeSpawnError
    \/ ProbeCommunicate
    \/ RunBatchPingGather
    \/ OutputOnKeyEscape
    \/ OutputOnUnmount

SpecHost == InitHost /\ [][NextHost]_vars

\* The ssh command: the user moves in the table and along the command bar and
\* presses Enter; SM_USER is unset or set to "u".
SshInventories ==
    { <<>>,
      <<[Name |-> "A", IP |-> <<"1">>], [Name |-> "C", IP |-> <<" ", "2", " ">>]>>,
      <<[Name |-> "B", IP |-> <<>>]>> }

InitSsh == \E rows \in SshInventories : \E user \in {<<>>, <<"u">>} : Mounted(rows, 0, user)

NextSsh ==
    \/ OnKeyLeftRight
    \/ ActionMoveUp
    \/ ActionMoveDown
    \/ ExecuteNothing
    \/ ExecuteExit
    \/ ExecuteSsh
    \/ ExecuteOutput
    \/ OutputOnKeyEscape
    \/ PopScreen
    \/ OutputOnUnmount

SpecSsh == InitSsh /\ [][NextSsh]_vars

\* Sessions next to sort and search: one of ping, traceroute, batch ping,
\* details and help stays selected, and the user sorts, searches, presses
\* Enter and ESC while the sessions run.
InitFrame ==
    \E rows \in HostInventories : \E index \in 1..5 : Mounted(rows, index, <<>>)

NextFrame ==
    \/ OnKeySort
    \/ OnKeyPrintable
    \/ OnSearch
    \/ ExecuteNothing
    \/ ExecuteStream
    \/ ExecuteBatchPing
    \/ ExecuteOutput
    \/ OnMount
    \/ StreamSpawn
    \/ StreamSpawnError
    \/ StreamReadEof
    \/ StreamWait
    \/ StreamCancelled
    \/ ProcCloseStdout
    \/ ProcExit
    \/ OnKeyEscape
    \/ PopScreen
    \/ OnUnmount
    \/ OnUnmountAwaited
    \/ OnUnmountFocus
    \/ RunBatchPingDispatch
    \/ ProbeSpawn
    \/ ProbeSpawnError
    \/ ProbeCommunicate
    \/ RunBatchPingGather
    \/ OutputOnKeyEscape
    \/ OutputOnUnmount

SpecFrame == InitFrame /\ [][NextFrame]_vars

\* ---------------------------------------------------------------- claims
\* The session is Closed: its screen is unmounted and its task has finished.
SessionClosed == screen = "removed" /\ unmount_pc = "done" /\ TaskDone

\* The decoded text of a sequence of byte lines, in order.
RECURSIVE TextOf(_)
TextOf(lines) ==
    IF lines = <<>> THEN <<>>
    ELSE TextOf(SubSeq(lines, 1, Len(lines) - 1)) \o
         [i \in 1..Len(lines[Len(lines)]) |-> Chr(lines[Len(lines)][i])]

\* C1: when teardown has finished for a session whose task it cancelled (the
\* task was still running at dismissal), the process of the session has been
\* sent a kill.
C1_DismissedTaskKilled ==
    (unmount_pc = "done" /\ stream_task = "cancelled" /\ proc /= "none") => kill_sent

\* C2: once a session that spawned a process is Closed, the wait on its
\* process has resolved.
C2_ClosedImpliesWaited ==
    (SessionClosed /\ proc /= "none") => waited

\* C3: once the closing flag is set by ESC, no step changes the accumulated
\* output or the text on the display surface.
C3_NoChunkAfterEsc ==
    [][closed => (output' = output /\ shown' = shown)]_vars

\* C4: when the read loop has left through the closing-flag break and the task
\* is at the wait for the process, a kill has been requested.
C4_FlagBreakKillsBeforeWait ==
    (loop_exit = "flag" /\ stream_task = "wait") => kill_sent

\* C5: after ESC (the closing flag is set) the session is eventually
\* dismissed, its task has ended and the table has the focus.
C5_EscLeadsToClosed ==
    closed ~> (SessionClosed /\ focus = "table")

\* C5 witness: a session closed by ESC whose process never wrote a line and
\* never exited.
C5_Witness ==
    /\ closed
    /\ SessionClosed
    /\ focus = "table"
    /\ stream_task = "cancelled"
    /\ emitted = <<>>
    /\ proc = "running"

\* C6: the text on the surface is the accumulated output, which is the decoded
\* text of the first k emitted lines for some k; after the loop has left at end
\* of output it is the text of all emitted lines.
C6_OutputIsPrefixOfEmitted ==
    /\ shown = output
    /\ \E k \in 0..Len(emitted) : output = TextOf(SubSeq(emitted, 1, k))
    /\ loop_exit = "eof" => output = TextOf(emitted)

\* C6 witness: two different lines were emitted, read to the end of output.
C6_Witness ==
    /\ loop_exit = "eof"
    /\ Len(emitted) = 2
    /\ emitted[1] /= emitted[2]
    /\ shown = TextOf(emitted)

\* C7: when the program cannot be spawned, the output surface of the session
\* shows an error line.
C7_SpawnErrorSurfaced ==
    stream_task = "failed" => shown /= <<>>

\* A row has a usable target address: its "IP" value has a character that is
\* not whitespace.
UsableAddress(row) ==
    "IP" \in DOMAIN row /\ \E c \in 1..Len(row["IP"]) : row["IP"][c] /= " "

NumRows == Len(filtered_data)
NumEmptyAddress == Cardinality({i \in 1..NumRows : ~UsableAddress(filtered_data[i])})

C9_ReportInDispatchOrder ==
    batch_pc = "done" =>
        /\ \A j \in 1..Len(results) :
             /\ j <= Len(tasks)
             /\ results[j] = tasks[j].res
             /\ j > 1 => tasks[j - 1].row < tasks[j].row
        /\ loading_screen = "active" =>
             loading_text = Join([j \in 1..Len(tasks) |-> tasks[j].res.text], <<"\n\n">>)

\* C9 witness: the probe dispatched second resolved before the one dispatched
\* first, with a different result.
C9_Witness ==
    /\ batch_pc = "done"
    /\ loading_screen = "active"
    /\ Len(tasks) >= 2
    /\ tasks[2].nth < tasks[1].nth
    /\ tasks[1].res /= tasks[2].res

\* C10: the batch never ends with an exception, and when it is finished every
\* dispatched probe has resolved and the result of each is in the report.
C10_FailedProbeDoesNotAbort ==
    /\ batch_pc /= "raised"
    /\ batch_pc = "done" =>
         \A j \in 1..Len(tasks) :
            /\ Resolved(tasks[j])
            /\ \E k \in 1..Len(results) : results[k] = tasks[j].res

\* C10 witness: one probe failed to spawn first, another ended with no output
\* and a third returned its reply afterwards; all three are in the report.
C10_Witness ==
    /\ batch_pc = "done"
    /\ Len(tasks) = 3
    /\ \E j \in 1..3 : tasks[j].st = "raised" /\ tasks[j].nth = 1
    /\ \E j \in 1..3 : tasks[j].st = "returned" /\ tasks[j].nth = 3
                       /\ tasks[j].res.text = PingHeader(tasks[j].hostname, tasks[j].ip) \o <<"a", "\n">>
    /\ \E j \in 1..3 : tasks[j].st = "returned"
                       /\ tasks[j].res.text = PingHeader(tasks[j].hostname, tasks[j].ip)
    /\ Len(results) = 3

\* C11: in a finished batch every entry of the report carries the display
\* name of the row its probe was dispatched for.
C11_ResultsKeyedByName ==
    batch_pc = "done" =>
        \A j \in 1..Len(results) :
            \E c \in 1..Len(results[j].text) :
                results[j].text[c] = RowHostname(filtered_data[tasks[j].row])

\* C12: the surface shows the placeholder from the push of the loading screen
\* until gather resolves; the only later change of its text is the one update
\* in the step that ends the batch, when every probe has resolved, to the
\* whole report.
C12_PlaceholderThenOneUpdate ==
    /\ [](batch_pc = "pushing" => (loading_text = Placeholder /\ tasks = <<>>))
    /\ [](batch_pc = "gather" => loading_text = Placeholder)
    /\ [](batch_pc = "done" => loading_text = CombinedOutput(results))
    /\ [][(loading_text' /= loading_text /\ batch_pc /= "idle") =>
            /\ batch_pc = "gather"
            /\ batch_pc' = "done"
            /\ \A j \in 1..Len(tasks) : Resolved(tasks[j])
            /\ loading_text' = Join([j \in 1..Len(tasks) |-> tasks[j].res.text], <<"\n\n">>)]_vars

\* C12 witness: a finished batch of two probes, the report on the surface.
C12_Witness ==
    /\ batch_pc = "done"
    /\ Len(tasks) = 2
    /\ loading_screen = "active"
    /\ loading_text = CombinedOutput(results)
    /\ loading_text /= Placeholder

\* A streaming session starts: its screen is pushed.
StreamStarts == screen' = "pushed" /\ screen /= "pushed"

\* A batch session starts: run_batch_ping pushes its loading screen.
BatchStarts == batch_pc' = "pushing" /\ batch_pc /= "pushing"

\* The batch session before has fully closed (or there was none): gather has
\* returned and the report screen has finished its on_unmount.
BatchClosed == batch_pc = "idle" \/ (batch_pc = "done" /\ loading_screen = "unmounted")

ModalOpen == screen \in {"pushed", "active"} \/ loading_screen = "active"

\* C14: a remote-shell process the program has launched belongs to a session
\* of the program, which terminates it on ESC before it closes: whenever such
\* a process is left to run, a session screen is open.
C14_SshProcessInSession == ssh_launched /= {} => ModalOpen

\* C15: the target of the remote-shell command is "user@address" when the
\* login name is set and the bare address, with no "@" in front, when it is not.
C15_SshTargetOmitsUnsetUser ==
    \A target \in ssh_launched :
        \E i \in 1..Len(data) :
            target = IF sm_user = <<>>
                     THEN RowIp(data[i])
                     ELSE sm_user \o <<"@">> \o RowIp(data[i])

C17_AllDispatchedBeforeWait ==
    /\ [](batch_pc = "pushing" => tasks = <<>>)
    /\ [](batch_pc \in {"gather", "done"} => Len(tasks) = NumRows - NumEmptyAddress)
    /\ [][Len(tasks') /= Len(tasks) => (batch_pc = "pushing" /\ batch_pc' = "gather")]_vars
    /\ [](batch_pc = "gather" =>
            \A j \in 1..Len(tasks) : tasks[j].st = "spawn" => ENABLED ProbeSpawnTask(j))

\* Three probes are in flight at the same time, none of them over.
C17_Witness ==
    /\ batch_pc = "gather"
    /\ Len(tasks) = 3
    /\ \A j \in 1..Len(tasks) : tasks[j].st = "communicate"

\* C18: each session is closed at most once. When ESC is pressed more than
\* once on a modal screen before it is dismissed, that screen alone is popped:
\* a streaming screen leaves the stack only after ESC was pressed on it (its
\* _closed flag is set), never through a pop scheduled by another screen.
C18_OnlyEscapedScreenPopped ==
    [][(screen = "active" /\ screen' = "removed") => closed]_vars

\* C19: after any sequence of load, filter and sort operations the table
\* shows exactly the rows of the filtered view, in the same order, every row
\* of the filtered view is a row of the inventory, and so the row a command
\* acts on is the row displayed at the cursor.
C19_TableShowsFilteredView ==
    /\ table_rows = TableOf(filtered_data)
    /\ \A i \in 1..Len(filtered_data) : \E k \in 1..Len(data) : filtered_data[i] = data[k]
    /\ cursor_row < Len(filtered_data) =>
           table_rows[cursor_row + 1] = TableRow(filtered_data[cursor_row + 1])

\* The rows are in the order of the column: no row goes before a row that
\* precedes it in the list.
IsSorted(rows, col_index, ascending) ==
    \A i \in 1..Len(rows) : \A j \in (i + 1)..Len(rows) :
        ~Before(rows[j], rows[i], col_index, ascending)

\* C20: whenever a sort column is recorded, the filtered view is ordered by
\* that column, compared case-insensitively, in the recorded direction, after
\* any sequence of sort-key presses and search-text changes.
C20_FilteredViewSorted ==
    sort_column /= -1 => IsSorted(filtered_data, sort_column, sort_ascending)

\* The filtered view is empty or the cursor is not an index of it.
NoValidRow == filtered_data = <<>> \/ cursor_row >= Len(filtered_data)

\* C21: when the filtered view is empty or the cursor is not a valid index of
\* it, Enter has no effect whatever command is selected, help and exit
\* included: no command branch can be taken, no step pushes a screen, starts a
\* process or exits the application, and the Enter that is turned away changes
\* nothing but the focus (and the log).
C21_EnterWithoutRowHasNoEffect ==
    /\ [](NoValidRow =>
            ~ENABLED (ExecuteExit \/ ExecuteSsh \/ ExecuteStream \/ ExecuteBatchPing
                      \/ ExecuteOutput))
    /\ [][NoValidRow =>
            /\ ~StreamStarts
            /\ ~BatchStarts
            /\ ~(loading_screen' = "active" /\ loading_screen /= "active")
            /\ ssh_launched' = ssh_launched
            /\ proc' = proc
            /\ tasks' = tasks
            /\ exited' = exited]_vars
    /\ [][aborted' /= aborted =>
            UNCHANGED <<stream_vars, batch_vars, pending_pops, data, table_rows,
                        cursor_row, sort_column, sort_ascending, active_command_index,
                        ssh_launched, exited, snapshot, search_value, sm_user>>]_vars

\* Enter was pressed on an empty view and turned away; exit is the selected
\* command and the application runs on, with no screen and no process.
C21_Witness ==
    /\ filtered_data = <<>>
    /\ aborted
    /\ Command = "exit"
    /\ ~exited
    /\ ~ModalOpen
    /\ ssh_launched = {}
    /\ proc = "none"
    /\ tasks = <<>>

====
